---- MODULE Spec2Model ----
(***************************************************************************)
(* Model of the acquisition-and-metrics pipeline of src/app.py:            *)
(* InstagramScraper (cookie parsing, session set-up, the profile and feed  *)
(* calls with item normalization), the pandas metrics                      *)
(* (generate_time_series_data, the nlargest rankings of                    *)
(* display_posts_analytics) and the control flow of main.                  *)
(*                                                                         *)
(* Python values are records [t, v]: t is the Python type, v an integer    *)
(* payload (the number for an int, the length for a str, epoch seconds for *)
(* a datetime, the day number for a date).  "absent" marks a key that a    *)
(* raw JSON object does not carry; it is never a Python value.             *)
(* Cookie strings are sequences of one-character strings.                  *)
(***************************************************************************)
EXTENDS Integers, Sequences, FiniteSets, TLC

VARIABLES
    cookies,       \* self.cookies of the scraper: [t |-> "str"|"dict", v |-> ...]
    session,       \* self.session: [jar |-> cookie name -> value, sent |-> requests issued on it]
    reported,      \* messages passed to st.error / st.warning by the most recent call (client) or run (main)
    profile_data,  \* value returned by the most recent get_user_profile
    posts_df,      \* DataFrame returned by the most recent get_user_posts / the batch under analysis
    escaped,       \* TRUE iff an exception left the most recent call
    call,          \* the most recent operation and its inputs
    pc,            \* position of main in the current analysis request
    daily_stats,   \* value returned by generate_time_series_data
    top_likes,     \* top_likes of display_posts_analytics
    top_comments,  \* top_comments of display_posts_analytics
    insights,      \* avg_likes, avg_comments of display_posts_analytics, best_type of display_insights
    hist           \* what the previous analysis request ended with (at most one entry)

vars == <<cookies, session, reported, profile_data, posts_df, escaped, call, pc,
          daily_stats, top_likes, top_comments, insights, hist>>

(***************************************************************************)
(* Bounds                                                                  *)
(***************************************************************************)
MaxCookieLen == 5     \* longest raw cookie string enumerated character by character
MaxFeed == 2          \* longest feed of the session-client specification
MaxPostsArg == 3      \* largest max_posts argument of the session-client specification
MaxConfigLen == 2     \* longest cookie string of the session specification
MaxMainFeed == 2      \* longest feed of the specification of main
MaxBatch == 6         \* longest post batch of the metrics specification

(***************************************************************************)
(* Python values                                                           *)
(***************************************************************************)
V(t, v) == [t |-> t, v |-> v]
None == V("None", 0)
Absent == V("absent", 0)
PyInt(n) == V("int", n)
PyStr(n) == V("str", n)
PyBool(b) == V("bool", IF b THEN 1 ELSE 0)
Photo == V("photo", 0)
Video == V("video", 0)

\* bool(x) for the values the model uses
Truthy(x) ==
    CASE x.t = "int"  -> x.v /= 0
      [] x.t = "str"  -> x.v > 0
      [] x.t = "bool" -> x.v = 1
      [] x.t = "dict" -> x.v > 0
      [] OTHER        -> FALSE

\* d.get(key): None when the key is absent
Get(field) == IF field.t = "absent" THEN None ELSE field

\* d.get(key, default)
GetDefault(field, default) == IF field.t = "absent" THEN default ELSE field

Min(a, b) == IF a <= b THEN a ELSE b

(***************************************************************************)
(* Credential parser and session set-up (InstagramScraper.__init__,        *)
(* _setup_session)                                                         *)
(***************************************************************************)
Chars == {"a", "b", "=", ";", " "}

Contains(s, c) == \E i \in 1..Len(s) : s[i] = c

\* s.split(c): the pieces between the occurrences of c, empty pieces included
RECURSIVE SplitAll(_, _)
SplitAll(s, c) ==
    IF ~Contains(s, c) THEN <<s>>
    ELSE LET i == CHOOSE j \in 1..Len(s) : s[j] = c /\ \A k \in 1..(j - 1) : s[k] /= c
         IN  <<SubSeq(s, 1, i - 1)>> \o SplitAll(SubSeq(s, i + 1, Len(s)), c)

\* s.strip(): leading and trailing whitespace removed
RECURSIVE Strip(_)
Strip(s) ==
    IF s = <<>> THEN s
    ELSE IF Head(s) = " " THEN Strip(Tail(s))
    ELSE IF s[Len(s)] = " " THEN Strip(SubSeq(s, 1, Len(s) - 1))
    ELSE s

\* split at the last occurrence of c (str.rsplit(c, 1))
SplitLast(s, c) ==
    IF ~Contains(s, c) THEN <<s>>
    ELSE LET i == CHOOSE j \in 1..Len(s) : s[j] = c /\ \A k \in (j + 1)..Len(s) : s[k] /= c
         IN  <<SubSeq(s, 1, i - 1), SubSeq(s, i + 1, Len(s))>>

\* s.split(c, 1): at most one split, at the first occurrence of c
SplitFirst(s, c) ==
    IF ~Contains(s, c) THEN <<s>>
    ELSE LET i == CHOOSE j \in 1..Len(s) : s[j] = c /\ \A k \in 1..(j - 1) : s[k] /= c
         IN  <<SubSeq(s, 1, i - 1), SubSeq(s, i + 1, Len(s))>>

EmptyDict == [k \in {} |-> <<>>]

\* d[key] = value
DictSet(d, key, value) ==
    [k \in DOMAIN d \cup {key} |-> IF k = key THEN value ELSE d[k]]

\* the for loop of _setup_session over self.cookies.split(';'); the tuple
\* assignment key, value = ... raises ValueError unless it gets two parts
RECURSIVE ParseLoop(_, _)
ParseLoop(items, d) ==
    IF items = <<>> THEN [raised |-> FALSE, dict |-> d]
    ELSE LET item == Head(items)
         IN  IF Contains(item, "=")
             THEN LET parts == SplitFirst(Strip(item), "=")
                  IN  IF Len(parts) /= 2
                      THEN [raised |-> TRUE, dict |-> d]
                      ELSE ParseLoop(Tail(items), DictSet(d, parts[1], parts[2]))
             ELSE ParseLoop(Tail(items), d)

\* session.cookies.set(key, value) for every pair of the mapping
InstallCookies(jar, m) ==
    [k \in DOMAIN jar \cup DOMAIN m |-> IF k \in DOMAIN m THEN m[k] ELSE jar[k]]

\* _setup_session on the scraper's current cookies and session
SetupSession(c, sess) ==
    LET parsed == IF c.t = "str" THEN ParseLoop(SplitAll(c.v, ";"), EmptyDict)
                  ELSE [raised |-> FALSE, dict |-> c.v]
    IN  IF parsed.raised
        THEN [raised |-> TRUE, cookies |-> c, session |-> sess]
        ELSE [raised |-> FALSE,
              cookies |-> [t |-> "dict", v |-> parsed.dict],
              session |-> [sess EXCEPT !.jar = InstallCookies(sess.jar, parsed.dict)]]

\* a scraper that keeps the session object it already has
ReusedSession(old) == old

\* self.session = requests.Session()
NewSession(old) == [jar |-> EmptyDict, sent |-> <<>>]

\* InstagramScraper(cookies)
Construct(c, old) == SetupSession(c, NewSession(old))

(***************************************************************************)
(* Record normalizer: the body of the for loop of get_user_posts           *)
(***************************************************************************)
CaptionLimit == 100

PostColumns == {"post_id", "shortcode", "timestamp", "type", "likes", "comments",
                "caption", "display_url", "thumbnail_url", "is_video",
                "video_view_count"}

Raise == [raised |-> TRUE, val |-> None]
Ok(x) == [raised |-> FALSE, val |-> x]

\* caption_node.get('text', '') if caption_node else ''
\* c = [t, v, text]: t the JSON type of item['caption'], v its size, text its 'text' entry
CaptionText(c) ==
    IF ~Truthy(V(c.t, c.v)) THEN Ok(PyStr(0))
    ELSE IF c.t /= "dict" THEN Raise
    ELSE Ok(GetDefault(c.text, PyStr(0)))

\* caption_text[:100]
Truncate(x) == IF x.t = "str" THEN Ok(PyStr(Min(x.v, CaptionLimit))) ELSE Raise

\* item.get('image_versions2', {}).get('candidates', [{}]) and
\* image_candidates[0].get('url', '') if image_candidates else ''
\* iv = [t, ct, cn, ft, url]: t the JSON type of item['image_versions2'], ct the
\* type of its 'candidates', cn their number, ft the type of the first
\* candidate, url that candidate's 'url' entry
DisplayUrl(iv) ==
    IF iv.t = "absent" THEN Ok(PyStr(0))
    ELSE IF iv.t /= "dict" THEN Raise
    ELSE IF iv.ct = "absent" THEN Ok(PyStr(0))
    ELSE IF iv.ct = "None" THEN Ok(PyStr(0))
    ELSE IF iv.ct = "list"
         THEN IF iv.cn = 0 THEN Ok(PyStr(0))
              ELSE IF iv.ft /= "dict" THEN Raise
              ELSE Ok(GetDefault(iv.url, PyStr(0)))
    ELSE IF Truthy(V(iv.ct, iv.cn)) THEN Raise
    ELSE Ok(PyStr(0))

\* datetime.fromtimestamp(item.get('taken_at', 0)), for a host whose local time is UTC
FromTimestamp(x) ==
    LET ts == GetDefault(x, PyInt(0))
    IN  IF ts.t = "int" THEN Ok(V("datetime", ts.v)) ELSE Raise

\* item.get('media_type') == 2
IsVideo(item) == item.media_type.t = "int" /\ item.media_type.v = 2

\* item.get('like_count', 0), item.get('comment_count', 0)
CountOrZero(x) == GetDefault(x, PyInt(0))

\* one pass of the loop body: the post_data dictionary, or the exception raised
NormalizeItem(item) ==
    IF item.t /= "dict" THEN Raise
    ELSE LET text == CaptionText(item.caption)
             url  == DisplayUrl(item.iv)
             ts   == FromTimestamp(item.taken_at)
             cap  == IF text.raised THEN Raise ELSE Truncate(text.val)
         IN  IF text.raised \/ url.raised \/ ts.raised \/ cap.raised THEN Raise
             ELSE Ok([post_id          |-> Get(item.pk),
                      shortcode        |-> Get(item.code),
                      timestamp        |-> ts.val,
                      type             |-> IF IsVideo(item) THEN Video ELSE Photo,
                      likes            |-> CountOrZero(item.like_count),
                      comments         |-> CountOrZero(item.comment_count),
                      caption          |-> cap.val,
                      display_url      |-> url.val,
                      thumbnail_url    |-> url.val,
                      is_video         |-> PyBool(IsVideo(item)),
                      video_view_count |-> IF IsVideo(item)
                                           THEN GetDefault(item.view_count, PyInt(0))
                                           ELSE PyInt(0)])

\* avg_likes, avg_comments and best_type before they are computed
NoInsights == [avg_likes |-> None, avg_comments |-> None, best_type |-> None]

\* pd.DataFrame() and pd.DataFrame(posts)
EmptyFrame == [columns |-> {}, rows |-> <<>>]
DataFrame(posts) == IF posts = <<>> THEN EmptyFrame
                    ELSE [columns |-> PostColumns, rows |-> posts]
IsEmpty(df) == df.rows = <<>>

\* the for loop over items[:max_posts]: posts.append(post_data) per item
RECURSIVE NormalizeLoop(_, _)
NormalizeLoop(items, posts) ==
    IF items = <<>> THEN Ok(posts)
    ELSE LET p == NormalizeItem(Head(items))
         IN  IF p.raised THEN Raise
             ELSE NormalizeLoop(Tail(items), Append(posts, p.val))

\* items[:max_posts] for max_posts >= 0
Prefix(items, n) == SubSeq(items, 1, Min(Len(items), n))

(***************************************************************************)
(* Session client: get_user_profile and get_user_posts                     *)
(***************************************************************************)
Msg(level, text) == [level |-> level, text |-> text]

NoProfile == [t |-> "None", id |-> None, followers |-> None]

\* a client that repeats the request
SendTwice(sess, kind) == [sess EXCEPT !.sent = Append(Append(@, kind), kind)]

\* self.session.get(url, ...): the request is issued on the session, whatever comes back
Send(sess, kind) == [sess EXCEPT !.sent = Append(@, kind)]

\* the try block of get_user_profile on response r:
\* r = [exc, status, json, top, data, user, id, fnode, fcount]
\*   exc: session.get raised; status: HTTP status; json: the body parses;
\*   top, data, user, fnode: JSON types of the body, of body['data'], of
\*   ['user'] and of ['edge_followed_by']; id, fcount: the leaf values
ProfileTry(r) ==
    IF r.exc THEN Raise
    ELSE IF r.status /= 200
         THEN [raised |-> FALSE, val |-> NoProfile,
               msgs |-> <<Msg("error", "Failed to fetch profile")>>]
    ELSE IF ~r.json THEN Raise
    ELSE IF r.top /= "dict" THEN Raise
    ELSE IF r.data \notin {"absent", "dict"} THEN Raise
    ELSE IF r.data = "dict" /\ r.user \notin {"absent", "dict"} THEN Raise
    ELSE LET hasUser == r.data = "dict" /\ r.user = "dict"
             fnode   == IF hasUser THEN r.fnode ELSE "absent"
         IN  IF fnode \notin {"absent", "dict"} THEN Raise
             ELSE [raised |-> FALSE,
                   val |-> [t |-> "dict",
                            id |-> IF hasUser THEN Get(r.id) ELSE None,
                            followers |-> IF fnode = "dict"
                                          THEN GetDefault(r.fcount, PyInt(0))
                                          ELSE PyInt(0)],
                   msgs |-> <<>>]

\* a handler that lets the exception through
ProfileReraise(body) ==
    IF body.raised
    THEN [raised |-> TRUE, val |-> NoProfile, msgs |-> <<>>]
    ELSE body

\* except Exception as e: st.error(...); return None
ProfileExcept(body) ==
    IF body.raised
    THEN [raised |-> FALSE, val |-> NoProfile,
          msgs |-> <<Msg("error", "Error fetching profile")>>]
    ELSE body

\* get_user_profile(username) against response r
GetUserProfile(r, sess) ==
    LET out == ProfileExcept(ProfileTry(r))
    IN  [raised |-> out.raised, val |-> out.val, msgs |-> out.msgs,
         session |-> Send(sess, "profile")]

\* the try block of get_user_posts on response r:
\* r = [exc, status, json, top, items]; items = [t, v]: the JSON type of
\* body['items'] and, for a list, its elements
PostsTry(r, max_posts) ==
    IF r.exc THEN Raise
    ELSE IF r.status /= 200
         THEN [raised |-> FALSE, val |-> EmptyFrame,
               msgs |-> <<Msg("error", "Failed to fetch posts"),
                          Msg("warning", "This could happen if your cookies are invalid")>>]
    ELSE IF ~r.json THEN Raise
    ELSE IF r.top /= "dict" THEN Raise
    ELSE IF r.items.t \notin {"absent", "list"} THEN Raise
    ELSE LET items == IF r.items.t = "list" THEN r.items.v ELSE <<>>
             posts == NormalizeLoop(Prefix(items, max_posts), <<>>)
         IN  IF posts.raised THEN Raise
             ELSE [raised |-> FALSE, val |-> DataFrame(posts.val), msgs |-> <<>>]

\* a handler that returns the empty frame without reporting
PostsSilent(body) ==
    IF body.raised
    THEN [raised |-> FALSE, val |-> EmptyFrame, msgs |-> <<>>]
    ELSE body

\* except Exception as e: st.error(...); return pd.DataFrame()
PostsExcept(body) ==
    IF body.raised
    THEN [raised |-> FALSE, val |-> EmptyFrame,
          msgs |-> <<Msg("error", "Error fetching posts")>>]
    ELSE body

\* a guard that lets every identifier through
NoIdGuard(user_id) == FALSE

\* if not user_id
MissingId(user_id) == ~Truthy(user_id)

\* get_user_posts(user_id, max_posts) against response r
GetUserPosts(user_id, max_posts, r, sess) ==
    IF MissingId(user_id)
    THEN [raised |-> FALSE, val |-> EmptyFrame,
          msgs |-> <<Msg("error", "User ID not found")>>, session |-> sess]
    ELSE LET out == PostsExcept(PostsTry(r, max_posts))
         IN  [raised |-> out.raised, val |-> out.val, msgs |-> out.msgs,
              session |-> Send(sess, "feed")]

(***************************************************************************)
(* Inputs: remote responses, feed items, identifiers, cookie inputs        *)
(***************************************************************************)
GoodProfile ==
    [exc |-> FALSE, status |-> 200, json |-> TRUE, top |-> "dict", data |-> "dict",
     user |-> "dict", id |-> PyStr(2), fnode |-> "dict", fcount |-> PyInt(10)]

ProfileResponses ==
    {GoodProfile,
     [GoodProfile EXCEPT !.exc = TRUE],
     [GoodProfile EXCEPT !.status = 404],
     [GoodProfile EXCEPT !.json = FALSE],
     [GoodProfile EXCEPT !.top = "list"],
     [GoodProfile EXCEPT !.data = "None"],
     [GoodProfile EXCEPT !.data = "absent"],
     [GoodProfile EXCEPT !.user = "None"],
     [GoodProfile EXCEPT !.user = "absent"],
     [GoodProfile EXCEPT !.id = Absent],
     [GoodProfile EXCEPT !.id = None],
     [GoodProfile EXCEPT !.id = PyStr(0)],
     [GoodProfile EXCEPT !.id = PyInt(7)],
     [GoodProfile EXCEPT !.fnode = "None"],
     [GoodProfile EXCEPT !.fnode = "absent"],
     [GoodProfile EXCEPT !.fcount = Absent],
     [GoodProfile EXCEPT !.fcount = None]}

FullItem ==
    [t |-> "dict", pk |-> PyInt(1), code |-> PyStr(3), taken_at |-> PyInt(0),
     media_type |-> PyInt(1), like_count |-> PyInt(2), comment_count |-> PyInt(1),
     view_count |-> Absent,
     caption |-> [t |-> "dict", v |-> 1, text |-> PyStr(120)],
     iv |-> [t |-> "dict", ct |-> "list", cn |-> 1, ft |-> "dict", url |-> PyStr(9)]]

VideoItem == [FullItem EXCEPT !.media_type = PyInt(2), !.view_count = PyInt(5)]

\* a dictionary with none of the optional keys
BareItem ==
    [t |-> "dict", pk |-> Absent, code |-> Absent, taken_at |-> Absent,
     media_type |-> Absent, like_count |-> Absent, comment_count |-> Absent,
     view_count |-> Absent,
     caption |-> [t |-> "absent", v |-> 0, text |-> Absent],
     iv |-> [t |-> "absent", ct |-> "absent", cn |-> 0, ft |-> "absent", url |-> Absent]]

SeqsUpTo(S, n) == UNION {[1..k -> S] : k \in 0..n}

FeedOf(items) ==
    [exc |-> FALSE, status |-> 200, json |-> TRUE, top |-> "dict",
     items |-> [t |-> "list", v |-> items]]

EmptyFeed == FeedOf(<<>>)

FailedFeeds ==
    {[EmptyFeed EXCEPT !.exc = TRUE],
     [EmptyFeed EXCEPT !.status = 403],
     [EmptyFeed EXCEPT !.json = FALSE],
     [EmptyFeed EXCEPT !.top = "list"],
     [EmptyFeed EXCEPT !.items = [t |-> "None", v |-> <<>>]]}

FeedResponses(Items, n) ==
    FailedFeeds \cup {[EmptyFeed EXCEPT !.items = [t |-> "absent", v |-> <<>>]]}
                \cup {FeedOf(items) : items \in SeqsUpTo(Items, n)}

UserIds == {None, PyStr(0), PyInt(0), PyStr(2)}

Text(s) == [t |-> "str", v |-> s]
Mapping(m) == [t |-> "dict", v |-> m]

NoResponse == [exc |-> FALSE]
EmptySession == [jar |-> EmptyDict, sent |-> <<>>]
Unconfigured == [cookies |-> Mapping(EmptyDict), session |-> EmptySession]

Call(op, input, user_id, max_posts, resp, before) ==
    [op |-> op, input |-> input, user_id |-> user_id, max_posts |-> max_posts,
     resp |-> resp, before |-> before]

Before == [cookies |-> cookies, session |-> session]

(***************************************************************************)
(* Specification of the session client: a scraper is constructed and its  *)
(* two calls are made in any order against any response                    *)
(***************************************************************************)
MaxSent == 1          \* requests issued on one session object

ClientCookies == Text(<<"a", "=", "b", ";", " ", "b", "=", "a">>)

ClientInit ==
    /\ LET r == Construct(ClientCookies, EmptySession)
       IN  /\ cookies = r.cookies
           /\ session = r.session
           /\ escaped = r.raised
    /\ call = Call("construct", ClientCookies, None, 0, NoResponse, Unconfigured)
    /\ reported = <<>>
    /\ profile_data = NoProfile
    /\ posts_df = EmptyFrame
    /\ pc = "client"
    /\ daily_stats = EmptyFrame
    /\ top_likes = <<>>
    /\ top_comments = <<>>
    /\ insights = NoInsights
    /\ hist = {}

ClientGetProfile ==
    \E r \in ProfileResponses :
      LET out == GetUserProfile(r, session)
      IN  /\ Len(out.session.sent) <= MaxSent
          /\ session' = out.session
          /\ profile_data' = out.val
          /\ reported' = out.msgs
          /\ escaped' = out.raised
          /\ call' = Call("get_user_profile", Text(<<>>), None, 0, r, Before)
          /\ UNCHANGED <<cookies, posts_df, pc, daily_stats, insights, top_likes,
                         top_comments, hist>>

ClientItems ==
    {FullItem, BareItem,
     [FullItem EXCEPT !.caption = [t |-> "str", v |-> 4, text |-> Absent]],
     [FullItem EXCEPT !.like_count = None]}

\* a call without identifier is answered by nobody: one response stands for all
ClientGetPosts ==
    \E user_id \in UserIds, max_posts \in 0..MaxPostsArg :
    \E r \in IF Truthy(user_id) THEN FeedResponses(ClientItems, MaxFeed) ELSE {EmptyFeed} :
      LET out == GetUserPosts(user_id, max_posts, r, session)
      IN  /\ Len(out.session.sent) <= MaxSent
          /\ session' = out.session
          /\ posts_df' = out.val
          /\ reported' = out.msgs
          /\ escaped' = out.raised
          /\ call' = Call("get_user_posts", Text(<<>>), user_id, max_posts, r, Before)
          /\ UNCHANGED <<cookies, profile_data, pc, daily_stats, insights, top_likes,
                         top_comments, hist>>

ClientNext == ClientGetProfile \/ ClientGetPosts

SpecClient == ClientInit /\ [][ClientNext]_vars

(***************************************************************************)
(* Claims about the session client (checked under SpecClient)              *)
(***************************************************************************)
FalsyIds == {None, PyStr(0), PyInt(0)}

\* a feed call that came back with status 200 and a JSON object whose 'items' is a list
FeedDelivered(r) ==
    ~r.exc /\ r.status = 200 /\ r.json /\ r.top = "dict" /\ r.items.t = "list"

\* C1: for a feed response whose items list has k entries and max_posts >= 0,
\* get_user_posts returns exactly min(k, max_posts) posts, malformed items included.
C1_BatchSize ==
    (call.op = "get_user_posts" /\ call.user_id \notin FalsyIds /\ FeedDelivered(call.resp))
        => Len(posts_df.rows) = Min(Len(call.resp.items.v), call.max_posts)

\* C2: get_user_posts with an absent or falsy identifier returns an empty batch
\* and leaves the number of requests sent on the session unchanged.
C2_NoIdNoRequest ==
    (call.op = "get_user_posts" /\ call.user_id \in FalsyIds)
        => /\ posts_df = EmptyFrame
           /\ session.sent = call.before.session.sent

\* C2 witness: a call without identifier on a session that had already sent a request
C2_Witness ==
    /\ call.op = "get_user_posts"
    /\ call.user_id = None
    /\ Len(session.sent) = 1
    /\ posts_df = EmptyFrame

\* the failure modes of the profile call: transport exception or timeout, non-200
\* status, body that is not JSON, JSON whose top level, 'data', 'user' or
\* follower node is null or not an object
ProfileFailure(r) ==
    \/ r.exc
    \/ r.status /= 200
    \/ ~r.json
    \/ r.top /= "dict"
    \/ r.data = "None"
    \/ (r.data = "dict" /\ r.user = "None")
    \/ (r.data = "dict" /\ r.user = "dict" /\ r.fnode = "None")

\* the failure modes of the feed call
PostsFailure(r) ==
    \/ r.exc
    \/ r.status /= 200
    \/ ~r.json
    \/ r.top /= "dict"
    \/ r.items.t = "None"

ErrorReported == \E i \in 1..Len(reported) : reported[i].level = "error"

\* C3: in every failure mode of either remote call the call returns the no-data
\* value (None, the empty batch), reports an error, and no exception escapes.
C3_FailuresContained ==
    /\ call.op \in {"get_user_profile", "get_user_posts"} => ~escaped
    /\ (call.op = "get_user_profile" /\ ProfileFailure(call.resp))
          => (profile_data = NoProfile /\ ErrorReported)
    /\ (call.op = "get_user_posts" /\ call.user_id \notin FalsyIds /\ PostsFailure(call.resp))
          => (posts_df = EmptyFrame /\ ErrorReported)

\* C3 witness: a profile call answered with {"data": null}
C3_Witness ==
    /\ call.op = "get_user_profile"
    /\ call.resp.status = 200 /\ call.resp.json /\ call.resp.data = "None"
    /\ profile_data = NoProfile
    /\ ErrorReported

IsCount(x) == x.t = "int" /\ x.v >= 0

\* C9: normalization does not raise, every missing optional field gets its
\* default, and likes and comments of every post of the batch are non-negative
\* integers, never null.
C9_Defaults ==
    call.op = "get_user_posts" =>
        /\ ~escaped
        /\ \A i \in 1..Len(posts_df.rows) :
             LET p == posts_df.rows[i]
                 item == call.resp.items.v[i]
             IN  /\ item.like_count = Absent => p.likes = PyInt(0)
                 /\ item.comment_count = Absent => p.comments = PyInt(0)
                 /\ item.media_type = Absent => (p.type = Photo /\ p.video_view_count = PyInt(0))
                 /\ item.caption.t = "absent" => p.caption = PyStr(0)
                 /\ item.iv.t = "absent" => p.display_url = PyStr(0)
                 /\ IsCount(p.likes)
                 /\ IsCount(p.comments)

(***************************************************************************)
(* Specification of the credential parser: one scraper is constructed from *)
(* each raw cookie input; __init__ stores the input, _setup_session parses *)
(* and installs it                                                         *)
(***************************************************************************)
ExampleCookieStrings ==
    {<<"a", "=", "a", ";", " ", "b", "=", "b">>,
     <<"a", "=", "a", ";", "b", ";", "b", "=", "b">>}

ExampleMappings ==
    {EmptyDict,
     DictSet(EmptyDict, <<"a">>, <<"b">>),
     DictSet(DictSet(EmptyDict, <<"a", " ">>, <<"=">>), <<"b">>, <<>>)}

ParseInputs ==
    {Text(s) : s \in SeqsUpTo(Chars, MaxCookieLen) \cup ExampleCookieStrings}
        \cup {Mapping(m) : m \in ExampleMappings}

ParseInit ==
    /\ cookies \in ParseInputs
    /\ session = NewSession(EmptySession)
    /\ call = Call("__init__", cookies, None, 0, NoResponse, Unconfigured)
    /\ escaped = FALSE
    /\ reported = <<>>
    /\ profile_data = NoProfile
    /\ posts_df = EmptyFrame
    /\ pc = "parse"
    /\ daily_stats = EmptyFrame
    /\ top_likes = <<>>
    /\ top_comments = <<>>
    /\ insights = NoInsights
    /\ hist = {}

ParseSetup ==
    /\ call.op = "__init__"
    /\ LET r == SetupSession(cookies, session)
       IN  /\ cookies' = r.cookies
           /\ session' = r.session
           /\ escaped' = r.raised
    /\ call' = [call EXCEPT !.op = "_setup_session"]
    /\ UNCHANGED <<reported, profile_data, posts_df, pc, daily_stats, insights, top_likes,
                   top_comments, hist>>

ParseNext == ParseSetup

SpecParse == ParseInit /\ [][ParseNext]_vars

\* the entries of s: the maximal stretches <<i, j>> of s without ';'
Entries(s) ==
    {e \in (1..(Len(s) + 1)) \X (0..Len(s)) :
        /\ e[1] <= e[2] + 1
        /\ (e[1] = 1 \/ s[e[1] - 1] = ";")
        /\ (e[2] = Len(s) \/ s[e[2] + 1] = ";")
        /\ \A p \in e[1]..e[2] : s[p] /= ";"}

HasEq(s, e) == \E p \in e[1]..e[2] : s[p] = "="
FirstIn(s, e, c) == CHOOSE p \in e[1]..e[2] : s[p] = c /\ \A q \in e[1]..(p - 1) : s[q] /= c
FirstInk(s, e) == CHOOSE p \in e[1]..e[2] : s[p] /= " " /\ \A q \in e[1]..(p - 1) : s[q] = " "
LastInk(s, e) == CHOOSE p \in e[1]..e[2] : s[p] /= " " /\ \A q \in (p + 1)..e[2] : s[q] = " "
NameOf(s, e) == SubSeq(s, FirstInk(s, e), FirstIn(s, e, "=") - 1)
ValueOf(s, e) == SubSeq(s, FirstIn(s, e, "=") + 1, LastInk(s, e))

\* C5: the parser returns the mapping of the ';'-separated entries that contain
\* '=', each trimmed and split at its first '=' (a later entry of the same name
\* replacing an earlier one); no input raises, "" gives {}, a mapping passes through.
C5_ParserContract ==
    call.op = "_setup_session" =>
        /\ ~escaped
        /\ cookies.t = "dict"
        /\ call.input.t = "dict" => cookies = call.input
        /\ call.input = Text(<<>>) => cookies = Mapping(EmptyDict)
        /\ call.input.t = "str" =>
             LET s == call.input.v
                 E == {e \in Entries(s) : HasEq(s, e)}
             IN  /\ DOMAIN cookies.v = {NameOf(s, e) : e \in E}
                 /\ \A e \in E :
                      (\A f \in E : NameOf(s, f) = NameOf(s, e) => f[1] <= e[1])
                          => cookies.v[NameOf(s, e)] = ValueOf(s, e)

\* C5 witness: "a=b=a" parsed to {a: "b=a"}
C5_Witness ==
    /\ call.op = "_setup_session"
    /\ call.input = Text(<<"a", "=", "b", "=", "a">>)
    /\ DOMAIN cookies.v = {<<"a">>}
    /\ cookies.v[<<"a">>] = <<"b", "=", "a">>

(***************************************************************************)
(* Specification of session configuration: scrapers are constructed one    *)
(* after the other, each from its own cookie input                         *)
(***************************************************************************)
SessionInputs ==
    {Text(s) : s \in SeqsUpTo(Chars \ {" "}, MaxConfigLen)}
        \cup {Mapping(m) : m \in ExampleMappings}

SessionInit ==
    /\ \E c \in SessionInputs :
          LET r == Construct(c, EmptySession)
          IN  /\ cookies = r.cookies
              /\ session = r.session
              /\ escaped = r.raised
              /\ call = Call("construct", c, None, 0, NoResponse, Unconfigured)
    /\ reported = <<>>
    /\ profile_data = NoProfile
    /\ posts_df = EmptyFrame
    /\ pc = "session"
    /\ daily_stats = EmptyFrame
    /\ top_likes = <<>>
    /\ top_comments = <<>>
    /\ insights = NoInsights
    /\ hist = {}

SessionConstruct ==
    \E c \in SessionInputs :
      LET r == Construct(c, session)
      IN  /\ cookies' = r.cookies
          /\ session' = r.session
          /\ escaped' = r.raised
          /\ call' = Call("construct", c, None, 0, NoResponse, Before)
          /\ UNCHANGED <<reported, profile_data, posts_df, pc, daily_stats, insights,
                         top_likes, top_comments, hist>>

SessionNext == SessionConstruct

SpecSession == SessionInit /\ [][SessionNext]_vars

\* C6: after configuring with C1 and then with C2 the session holds exactly the
\* cookies of C2 (no name of C1 that C2 lacks stays installed), and configuring
\* again with the same set leaves the session state as it was.
C6_Replaces ==
    call.op = "construct" =>
        /\ session.jar = cookies.v
        /\ \A k \in DOMAIN call.before.session.jar :
             k \notin DOMAIN cookies.v => k \notin DOMAIN session.jar
        /\ cookies = call.before.cookies => session.jar = call.before.session.jar

\* C6 witness: the second configuration dropped a name of the first and installed another
C6_Witness ==
    /\ call.op = "construct"
    /\ \E k \in DOMAIN call.before.session.jar : k \notin DOMAIN session.jar
    /\ \E k \in DOMAIN session.jar : k \notin DOMAIN call.before.session.jar

(***************************************************************************)
(* Metrics: generate_time_series_data and the rankings of                  *)
(* display_posts_analytics (pandas groupby / agg / nlargest)               *)
(***************************************************************************)
SecondsPerDay == 24 * 60 * 60
TopN == 5

\* posts_df['timestamp'].dt.date
DateOf(ts) == V("date", ts.v \div SecondsPerDay)

\* posts_df['date'] = ...: the column is added to the frame that was passed in
WithDateColumn(df) ==
    [columns |-> df.columns \cup {"date"},
     rows |-> [i \in 1..Len(df.rows) |->
                 [c \in DOMAIN df.rows[i] \cup {"date"} |->
                     IF c = "date" THEN DateOf(df.rows[i].timestamp) ELSE df.rows[i][c]]]]

\* 'sum' of a column over the rows of a group (missing values are skipped)
RECURSIVE ColumnSum(_, _)
ColumnSum(rows, col) ==
    IF rows = <<>> THEN 0
    ELSE (IF Head(rows)[col].t = "int" THEN Head(rows)[col].v ELSE 0)
         + ColumnSum(Tail(rows), col)

\* 'count' of a column over the rows of a group: the entries that are not None
RECURSIVE ColumnCount(_, _)
ColumnCount(rows, col) ==
    IF rows = <<>> THEN 0
    ELSE (IF Head(rows)[col].t = "None" THEN 0 ELSE 1) + ColumnCount(Tail(rows), col)

OnDate(rows, d) == SelectSeq(rows, LAMBDA r : r.date.v = d)

\* groupby('date'): the group keys in ascending order
RECURSIVE Ascending(_)
Ascending(S) ==
    IF S = {} THEN <<>>
    ELSE LET m == CHOOSE x \in S : \A y \in S : x <= y
         IN  <<m>> \o Ascending(S \ {m})

\* groupby('date').agg({...}).rename(...).reset_index()
DailyStats(rows) ==
    LET days == Ascending({rows[i].date.v : i \in 1..Len(rows)})
    IN  [columns |-> {"date", "likes", "comments", "posts_count"},
         rows |-> [k \in 1..Len(days) |->
                     [date        |-> V("date", days[k]),
                      likes       |-> PyInt(ColumnSum(OnDate(rows, days[k]), "likes")),
                      comments    |-> PyInt(ColumnSum(OnDate(rows, days[k]), "comments")),
                      posts_count |-> PyInt(ColumnCount(OnDate(rows, days[k]), "post_id"))]]]

\* generate_time_series_data(posts_df): the value returned and the frame afterwards
GenerateTimeSeriesData(df) ==
    IF IsEmpty(df) THEN [val |-> EmptyFrame, df |-> df]
    ELSE LET dated == WithDateColumn(df)
         IN  [val |-> DailyStats(dated.rows), df |-> dated]

\* a ranking that prefers the later of two equal rows
RECURSIVE NLargestKeepLast(_, _, _, _)
NLargestKeepLast(rows, left, n, col) ==
    IF n = 0 \/ left = {} THEN <<>>
    ELSE LET best == CHOOSE i \in left : \A j \in left :
                        \/ rows[i][col].v > rows[j][col].v
                        \/ (rows[i][col].v = rows[j][col].v /\ i >= j)
         IN  <<best>> \o NLargestKeepLast(rows, left \ {best}, n - 1, col)

\* DataFrame.nlargest(n, col), keep='first': the labels of the n rows with the
\* largest col, largest first, the earlier row first among equals
RECURSIVE NLargest(_, _, _, _)
NLargest(rows, left, n, col) ==
    IF n = 0 \/ left = {} THEN <<>>
    ELSE LET best == CHOOSE i \in left : \A j \in left :
                        \/ rows[i][col].v > rows[j][col].v
                        \/ (rows[i][col].v = rows[j][col].v /\ i <= j)
         IN  <<best>> \o NLargest(rows, left \ {best}, n - 1, col)

\* posts_df.nlargest(5, col)[['shortcode', 'likes', 'comments', 'timestamp']] with
\* the timestamp column replaced by its '%Y-%m-%d' rendering; index is the row label
TopPosts(df, col) ==
    LET ix == NLargest(df.rows, 1..Len(df.rows), TopN, col)
    IN  [k \in 1..Len(ix) |->
           [index     |-> ix[k],
            shortcode |-> df.rows[ix[k]].shortcode,
            likes     |-> df.rows[ix[k]].likes,
            comments  |-> df.rows[ix[k]].comments,
            timestamp |-> V("datestr", df.rows[ix[k]].timestamp.v \div SecondsPerDay)]]

\* Series.mean() of a column: a float, kept as the fraction sum / number of rows
ColumnMean(rows, col) == [t |-> "mean", v |-> ColumnSum(rows, col), n |-> Len(rows)]

OfType(rows, type) == SelectSeq(rows, LAMBDA r : r.type = type)

\* posts_df.groupby('type')['likes'].mean().idxmax(): the groups come in key
\* order ('photo' before 'video') and idxmax returns the first of equal maxima
BestType(rows) ==
    LET photos == OfType(rows, Photo)
        videos == OfType(rows, Video)
    IN  IF videos = <<>> THEN Photo
        ELSE IF photos = <<>> THEN Video
        ELSE IF ColumnSum(videos, "likes") * Len(photos) > ColumnSum(photos, "likes") * Len(videos)
             THEN Video
        ELSE Photo

(***************************************************************************)
(* Specification of the metrics: the functions are applied, in any order,  *)
(* to a batch produced by the normalizer                                   *)
(***************************************************************************)
MetricItems ==
    {[FullItem EXCEPT !.like_count = PyInt(2), !.comment_count = PyInt(0)],
     [FullItem EXCEPT !.pk = PyInt(2), !.taken_at = PyInt(SecondsPerDay),
                      !.media_type = PyInt(2), !.view_count = PyInt(5),
                      !.like_count = PyInt(1), !.comment_count = PyInt(2)],
     [FullItem EXCEPT !.pk = Absent, !.taken_at = PyInt(SecondsPerDay - 1),
                      !.like_count = PyInt(1), !.comment_count = PyInt(0)],
     BareItem}

MetricsInit ==
    /\ \E items \in SeqsUpTo(MetricItems, MaxBatch) :
          posts_df = DataFrame(NormalizeLoop(items, <<>>).val)
    /\ call = Call("batch", Text(<<>>), None, 0, NoResponse, Unconfigured)
    /\ cookies = Mapping(EmptyDict)
    /\ session = EmptySession
    /\ escaped = FALSE
    /\ reported = <<>>
    /\ profile_data = [t |-> "dict", id |-> PyStr(2), followers |-> PyInt(10)]
    /\ pc = "metrics"
    /\ daily_stats = EmptyFrame
    /\ top_likes = <<>>
    /\ top_comments = <<>>
    /\ insights = NoInsights
    /\ hist = {}

MetricsTimeSeries ==
    /\ call.op /= "generate_time_series_data"
    /\ LET r == GenerateTimeSeriesData(posts_df)
       IN  /\ daily_stats' = r.val
           /\ posts_df' = r.df
    /\ call' = [call EXCEPT !.op = "generate_time_series_data"]
    /\ UNCHANGED <<cookies, session, reported, profile_data, escaped, pc,
                   top_likes, top_comments, insights, hist>>

MetricsPostsAnalytics ==
    /\ call.op /= "display_posts_analytics"
    /\ IF IsEmpty(posts_df)
       THEN /\ reported' = <<Msg("warning", "No posts data available")>>
            /\ UNCHANGED <<top_likes, top_comments, insights>>
       ELSE /\ top_likes' = TopPosts(posts_df, "likes")
            /\ top_comments' = TopPosts(posts_df, "comments")
            /\ insights' = [insights EXCEPT !.avg_likes = ColumnMean(posts_df.rows, "likes"),
                                            !.avg_comments = ColumnMean(posts_df.rows, "comments")]
            /\ UNCHANGED reported
    /\ call' = [call EXCEPT !.op = "display_posts_analytics"]
    /\ UNCHANGED <<cookies, session, profile_data, posts_df, escaped, pc,
                   daily_stats, hist>>

\* display_insights: returns at once for an empty batch
MetricsInsights ==
    /\ call.op /= "display_insights"
    /\ insights' = IF IsEmpty(posts_df) THEN insights
                   ELSE [insights EXCEPT !.best_type = BestType(posts_df.rows)]
    /\ call' = [call EXCEPT !.op = "display_insights"]
    /\ UNCHANGED <<cookies, session, reported, profile_data, posts_df, escaped, pc,
                   daily_stats, top_likes, top_comments, hist>>

MetricsNext == MetricsTimeSeries \/ MetricsPostsAnalytics \/ MetricsInsights

SpecMetrics == MetricsInit /\ [][MetricsNext]_vars

(***************************************************************************)
(* Claims about the metrics (checked under SpecMetrics)                    *)
(***************************************************************************)
RECURSIVE SumOver(_, _, _)
SumOver(I, rows, col) ==
    IF I = {} THEN 0
    ELSE LET i == CHOOSE x \in I : TRUE
         IN  rows[i][col].v + SumOver(I \ {i}, rows, col)

DayOf(row) == row.timestamp.v \div SecondsPerDay
PostsOfDay(rows, d) == {i \in 1..Len(rows) : DayOf(rows[i]) = d}

\* C7: generate_time_series_data returns one row per distinct calendar date of
\* the batch, dates ascending, with the date's summed likes and comments and the
\* number of the date's posts, also for posts whose pk was absent upstream.
C7_DailyAggregates ==
    "date" \in posts_df.columns =>
        LET rows == posts_df.rows
            out  == daily_stats.rows
            days == {DayOf(rows[i]) : i \in 1..Len(rows)}
        IN  /\ Len(out) = Cardinality(days)
            /\ \A k \in 1..(Len(out) - 1) : out[k].date.v < out[k + 1].date.v
            /\ \A k \in 1..Len(out) :
                 LET d == out[k].date.v
                 IN  /\ d \in days
                     /\ out[k].likes = PyInt(SumOver(PostsOfDay(rows, d), rows, "likes"))
                     /\ out[k].comments = PyInt(SumOver(PostsOfDay(rows, d), rows, "comments"))
                     /\ out[k].posts_count = PyInt(Cardinality(PostsOfDay(rows, d)))

Likes(row) == row.likes.v
Comments(row) == row.comments.v
Engagement(row) == row.likes.v + row.comments.v

\* top holds the min(TopN, len) rows that are largest by Key, largest first, the
\* earlier row first among equals and preferred at the cut-off
Ranked(top, rows, Key(_)) ==
    LET chosen == {top[k].index : k \in 1..Len(top)}
    IN  /\ Len(top) = Min(TopN, Len(rows))
        /\ chosen \subseteq 1..Len(rows)
        /\ Cardinality(chosen) = Len(top)
        /\ \A k \in 1..Len(top) : \A l \in (k + 1)..Len(top) :
             \/ Key(rows[top[k].index]) > Key(rows[top[l].index])
             \/ /\ Key(rows[top[k].index]) = Key(rows[top[l].index])
                /\ top[k].index < top[l].index
        /\ \A k \in 1..Len(top) : \A j \in (1..Len(rows)) \ chosen :
             \/ Key(rows[top[k].index]) > Key(rows[j])
             \/ /\ Key(rows[top[k].index]) = Key(rows[j])
                /\ top[k].index < j

AnalyticsShown == call.op = "display_posts_analytics" \/ top_likes /= <<>>

\* C8 as stated: the rankings of display_posts_analytics are the largest posts by
\* engagement = likes + comments, descending, ties in input order.
C8_TopByEngagement ==
    AnalyticsShown =>
        /\ Ranked(top_likes, posts_df.rows, Engagement)
        /\ Ranked(top_comments, posts_df.rows, Engagement)

\* C8 amended: top_likes holds the min(5, len) posts largest by likes and
\* top_comments those largest by comments, each descending, ties in input order,
\* the earlier post winning a tie at the cut-off.
C8_TopByColumn ==
    AnalyticsShown =>
        /\ Ranked(top_likes, posts_df.rows, Likes)
        /\ Ranked(top_comments, posts_df.rows, Comments)

\* C8 witness: six posts, and the one left out of top_likes ties with the last one kept
C8_Witness ==
    /\ call.op = "display_posts_analytics"
    /\ Len(posts_df.rows) > TopN
    /\ Len(top_likes) = TopN
    /\ \E j \in 1..Len(posts_df.rows) :
          /\ \A k \in 1..TopN : top_likes[k].index /= j
          /\ posts_df.rows[j].likes = top_likes[TopN].likes
          /\ j > top_likes[TopN].index

\* C11: no metrics function changes its inputs: across a call of
\* generate_time_series_data, of display_posts_analytics or of
\* display_insights the batch keeps the same posts, the same set of columns
\* and the same values, and the profile stays as it was.
C11_InputsUnchanged ==
    [][/\ posts_df' = posts_df
       /\ profile_data' = profile_data]_vars

(***************************************************************************)
(* main: one analysis request per press of the Analyze button              *)
(***************************************************************************)
MainMaxPosts == 50

\* if not cookie_input or not username
InputMissing(cookie_input, username) == ~Truthy(PyStr(Len(cookie_input.v))) \/ ~Truthy(username)

\* if profile_data and profile_data['id']
ProfileUsable(p) == p.t = "dict" /\ Truthy(p.id)

\* display_profile_section(profile_data): the ':,' formatting of the follower
\* count raises TypeError unless the count is a number
DisplayProfileRaises(p) == p.followers.t /= "int"

MainCookieInputs == {Text(<<>>), ClientCookies}
Usernames == {PyStr(0), PyStr(4)}

MainItems ==
    {FullItem, VideoItem, BareItem,
     [FullItem EXCEPT !.iv = [t |-> "None", ct |-> "absent", cn |-> 0, ft |-> "absent", url |-> Absent]]}

DoneStates == {"done:no_input", "done:no_profile", "done:unexpected", "done:no_posts",
               "done:analytics"}

MainInit ==
    /\ pc = "idle"
    /\ cookies = Mapping(EmptyDict)
    /\ session = EmptySession
    /\ call = Call("idle", Text(<<>>), None, 0, NoResponse, Unconfigured)
    /\ escaped = FALSE
    /\ reported = <<>>
    /\ profile_data = NoProfile
    /\ posts_df = EmptyFrame
    /\ daily_stats = EmptyFrame
    /\ top_likes = <<>>
    /\ top_comments = <<>>
    /\ insights = NoInsights
    /\ hist = {}

\* lines 407-414: the button was pressed; inputs are checked, the scraper is built
\* (a run that returns at line 410 has no scraper and no session)
MainStart ==
    /\ pc = "idle"
    /\ \E cookie_input \in MainCookieInputs, username \in Usernames :
          IF InputMissing(cookie_input, username)
          THEN /\ reported' = <<Msg("error", "Please provide both cookies and username")>>
               /\ pc' = "done:no_input"
               /\ call' = Call("main", cookie_input, None, 0, NoResponse, Before)
               /\ cookies' = Mapping(EmptyDict)
               /\ session' = EmptySession
               /\ UNCHANGED escaped
          ELSE LET r == Construct(cookie_input, session)
               IN  /\ cookies' = r.cookies
                   /\ session' = r.session
                   /\ escaped' = r.raised
                   /\ reported' = <<>>
                   /\ pc' = "profile"
                   /\ call' = Call("construct", cookie_input, None, 0, NoResponse, Before)
    /\ profile_data' = NoProfile
    /\ posts_df' = EmptyFrame
    /\ top_likes' = <<>>
    /\ top_comments' = <<>>
    /\ insights' = NoInsights
    /\ UNCHANGED <<daily_stats, hist>>

\* lines 416-418 and 456-457: the profile call and the branch on its result
MainProfile ==
    /\ pc = "profile"
    /\ \E r \in ProfileResponses :
          LET out == GetUserProfile(r, session)
          IN  /\ session' = out.session
              /\ profile_data' = out.val
              /\ escaped' = out.raised
              /\ call' = Call("get_user_profile", Text(<<>>), None, 0, r, Before)
              /\ IF ProfileUsable(out.val)
                 THEN /\ reported' = reported \o out.msgs
                      /\ pc' = "show_profile"
                 ELSE /\ reported' = reported \o out.msgs
                                        \o <<Msg("error", "Could not fetch profile data")>>
                      /\ pc' = "done:no_profile"
    /\ UNCHANGED <<cookies, posts_df, daily_stats, insights, top_likes, top_comments, hist>>

\* line 419, and lines 459-461 when it raises
MainShowProfile ==
    /\ pc = "show_profile"
    /\ IF DisplayProfileRaises(profile_data)
       THEN /\ reported' = reported \o <<Msg("error", "An unexpected error occurred")>>
            /\ pc' = "done:unexpected"
       ELSE /\ reported' = reported
            /\ pc' = "posts"
    /\ call' = Call("display_profile_section", Text(<<>>), None, 0, NoResponse, Before)
    /\ UNCHANGED <<cookies, session, profile_data, posts_df, escaped, daily_stats, insights,
                   top_likes, top_comments, hist>>

\* lines 421-424 and 454-455: the feed call and the branch on its result
MainPosts ==
    /\ pc = "posts"
    /\ \E r \in FeedResponses(MainItems, MaxMainFeed) :
          LET out == GetUserPosts(profile_data.id, MainMaxPosts, r, session)
          IN  /\ session' = out.session
              /\ posts_df' = out.val
              /\ escaped' = out.raised
              /\ call' = Call("get_user_posts", Text(<<>>), profile_data.id, MainMaxPosts,
                              r, Before)
              /\ IF ~IsEmpty(out.val)
                 THEN /\ reported' = reported \o out.msgs
                      /\ pc' = "analytics"
                 ELSE /\ reported' = reported \o out.msgs
                                        \o <<Msg("warning", "Could not fetch posts")>>
                      /\ pc' = "done:no_posts"
    /\ UNCHANGED <<cookies, profile_data, daily_stats, insights, top_likes, top_comments, hist>>

\* lines 425-453: the analytics sections are computed from the batch
MainAnalytics ==
    /\ pc = "analytics"
    /\ top_likes' = TopPosts(posts_df, "likes")
    /\ top_comments' = TopPosts(posts_df, "comments")
    /\ insights' = [avg_likes    |-> ColumnMean(posts_df.rows, "likes"),
                    avg_comments |-> ColumnMean(posts_df.rows, "comments"),
                    best_type    |-> BestType(posts_df.rows)]
    /\ pc' = "done:analytics"
    /\ call' = Call("display_posts_analytics", Text(<<>>), None, 0, NoResponse, Before)
    /\ UNCHANGED <<cookies, session, reported, profile_data, posts_df, escaped,
                   daily_stats, hist>>

\* the terminal case of the run, from what the remote answered
Case ==
    CASE pc = "done:no_input"   -> "no_input"
      [] pc = "done:unexpected" -> "unexpected"
      [] pc = "done:analytics"  -> "posts"
      [] pc = "done:no_profile" ->
            IF ProfileFailure(call.resp) THEN "profile_failure" ELSE "no_identifier"
      [] pc = "done:no_posts" ->
            IF PostsFailure(call.resp) THEN "posts_failure"
            ELSE IF call.resp.items.v = <<>> THEN "empty_feed"
            ELSE "malformed_item"
      [] OTHER -> "running"

Ended == [case |-> Case, branch |-> pc, profile |-> profile_data, posts |-> posts_df,
          reported |-> reported]

\* the script run ends; the page waits for the next press of the button
MainFinish ==
    /\ pc \in DoneStates
    /\ hist' = {Ended}
    /\ pc' = "idle"
    /\ UNCHANGED <<cookies, session, reported, profile_data, posts_df, escaped, call,
                   daily_stats, insights, top_likes, top_comments>>

MainNext ==
    MainStart \/ MainProfile \/ MainShowProfile \/ MainPosts \/ MainAnalytics \/ MainFinish

SpecMain == MainInit /\ [][MainNext]_vars

(***************************************************************************)
(* Claims about main (checked under SpecMain)                              *)
(***************************************************************************)
FourCases == {"profile_failure", "no_identifier", "posts_failure", "empty_feed"}

\* the values the stages handed on, and the branch main ended in
Handed(e) == [branch |-> e.branch, profile |-> e.profile, posts |-> e.posts]

\* the branch main ended in and the messages reported during the run
Shown(e) == [branch |-> e.branch, reported |-> e.reported]

\* C4 as stated: profile-fetch failure, profile without identifier, posts-fetch
\* failure and successful empty feed end in pairwise different outcome values.
C4_OutcomeIdentifiesCase ==
    pc \in DoneStates =>
        \A h \in hist :
            (Case \in FourCases /\ h.case \in FourCases /\ h.case /= Case)
                => Handed(Ended) /= Handed(h)

\* C4 amended: a failed feed call and a successful empty feed hand on the same
\* empty batch and end in the same branch; the four cases differ pairwise only
\* in the branch together with the messages reported during the run.
C4_CaseFromMessages ==
    pc \in DoneStates =>
        /\ Case \in {"posts_failure", "empty_feed"} => posts_df = EmptyFrame
        /\ \A h \in hist :
             (Case \in FourCases /\ h.case \in FourCases /\ h.case /= Case)
                 => Shown(Ended) /= Shown(h)

\* C4 witness: a run with a failed feed call right after a run with an empty feed,
\* same values handed on, different messages
C4_Witness ==
    /\ Case = "posts_failure"
    /\ \E h \in hist :
          /\ h.case = "empty_feed"
          /\ Handed(h) = Handed(Ended)
          /\ Shown(h) /= Shown(Ended)

Rank(p) ==
    CASE p = "idle"         -> 0
      [] p = "profile"      -> 1
      [] p = "show_profile" -> 2
      [] p = "posts"        -> 3
      [] p = "analytics"    -> 4
      [] OTHER              -> 5

FeedRequested == \E i \in 1..Len(session.sent) : session.sent[i] = "feed"
ProfileRequested == \E i \in 1..Len(session.sent) : session.sent[i] = "profile"
MetricsComputed == pc = "done:analytics"

StageInv ==
    /\ session.sent \in {<<>>, <<"profile">>, <<"profile", "feed">>}
    /\ FeedRequested => ProfileUsable(profile_data)
    /\ pc \in {"posts", "analytics"} => ProfileUsable(profile_data)
    /\ MetricsComputed => (session.sent = <<"profile", "feed">> /\ ~IsEmpty(posts_df))
    /\ (ProfileRequested /\ ~ProfileUsable(profile_data))
          => (~FeedRequested /\ pc \in {"done:no_profile", "idle"} /\ top_likes = <<>>)

StageStep ==
    /\ pc' /= pc => ((pc' = "idle" /\ pc \in DoneStates) \/ Rank(pc') > Rank(pc))
    /\ session'.sent /= session.sent =>
          \/ pc = "idle" /\ session'.sent = <<>>
          \/ pc = "profile" /\ session'.sent = Append(session.sent, "profile")
          \/ pc = "posts" /\ session'.sent = Append(session.sent, "feed")
    /\ top_likes' /= top_likes => (pc = "analytics" \/ pc = "idle")

\* C10: in every run the stages occur in the order profile fetch, feed fetch,
\* metric computation, with at most one profile and one feed request; the feed
\* request follows a profile with non-empty identifier, and after a failed
\* profile fetch or a profile without identifier neither happens.
C10_StageOrder == []StageInv /\ [][StageStep]_vars

\* C10 witness: a run that went through all three stages
C10_Witness ==
    /\ pc = "done:analytics"
    /\ session.sent = <<"profile", "feed">>
    /\ top_likes /= <<>>
    /\ \E h \in hist : h.case = "no_identifier"

====
